---- MODULE Spec2Model ----
(***************************************************************************)
(* The two generated implementor scripts of the axfs_crates documentation: *)
(*   trait.impl/axfs_vfs/trait.VfsOps.js  (implementors of axfs_vfs::VfsOps)*)
(*   unnamed/part_000                     (implementors of core Default)    *)
(* Each is an IIFE that builds a map with Object.fromEntries and hands it   *)
(* to window.register_implementors when that is defined, and parks it in    *)
(* window.pending_implementors otherwise.                                   *)
(***************************************************************************)
EXTENDS Integers, Sequences, FiniteSets, TLC

VARIABLES window, calls, ran

vars == << window, calls, ran >>

\* Bound on the number of script runs explored.
MaxRuns == 3

\* The two scripts, named after the trait whose implementors they list.
Scripts == {"VfsOps", "Default"}

\* JavaScript values carry their type: undefined, a function, or an object.
Undefined == [type |-> "undefined"]

\* Functions the hosting page may install as window.register_implementors.
Registrars == { [type |-> "function", name |-> n] :
                 n \in {"registrar_a", "registrar_b"} }

\* The properties of window that are tracked; "implementors" is the name of
\* the IIFE's local constant, tracked to see that it never becomes a global.
Props == {"register_implementors", "pending_implementors", "implementors"}

(***************************************************************************)
(* The string literals of line 2 of each script (JavaScript values, that   *)
(* is, with the \" escapes of the source text resolved).                   *)
(***************************************************************************)
html_VfsOps_DeviceFileSystem ==
  "impl <a class=\"trait\" href=\"axfs_vfs/trait.VfsOps.html\" title=\"trait axfs_vfs::VfsOps\">VfsOps</a> for <a class=\"struct\" href=\"axfs_devfs/struct.DeviceFileSystem.html\" title=\"struct axfs_devfs::DeviceFileSystem\">DeviceFileSystem</a>"

html_VfsOps_RamFileSystem ==
  "impl <a class=\"trait\" href=\"axfs_vfs/trait.VfsOps.html\" title=\"trait axfs_vfs::VfsOps\">VfsOps</a> for <a class=\"struct\" href=\"axfs_ramfs/struct.RamFileSystem.html\" title=\"struct axfs_ramfs::RamFileSystem\">RamFileSystem</a>"

html_Default_DeviceFileSystem ==
  "impl <a class=\"trait\" href=\"https://doc.rust-lang.org/nightly/core/default/trait.Default.html\" title=\"trait core::default::Default\">Default</a> for <a class=\"struct\" href=\"axfs_devfs/struct.DeviceFileSystem.html\" title=\"struct axfs_devfs::DeviceFileSystem\">DeviceFileSystem</a>"

html_Default_UrandomDev ==
  "impl <a class=\"trait\" href=\"https://doc.rust-lang.org/nightly/core/default/trait.Default.html\" title=\"trait core::default::Default\">Default</a> for <a class=\"struct\" href=\"axfs_devfs/struct.UrandomDev.html\" title=\"struct axfs_devfs::UrandomDev\">UrandomDev</a>"

html_Default_RamFileSystem ==
  "impl <a class=\"trait\" href=\"https://doc.rust-lang.org/nightly/core/default/trait.Default.html\" title=\"trait core::default::Default\">Default</a> for <a class=\"struct\" href=\"axfs_ramfs/struct.RamFileSystem.html\" title=\"struct axfs_ramfs::RamFileSystem\">RamFileSystem</a>"

(***************************************************************************)
(* The shape of a snippet: "impl <Trait> for <Struct>", each name wrapped  *)
(* in an anchor that carries the item's kind, page and full path.          *)
(***************************************************************************)
VfsOpsTrait ==
  [ name |-> "VfsOps",
    href |-> "axfs_vfs/trait.VfsOps.html",
    path |-> "axfs_vfs::VfsOps" ]

DefaultTrait ==
  [ name |-> "Default",
    href |-> "https://doc.rust-lang.org/nightly/core/default/trait.Default.html",
    path |-> "core::default::Default" ]

Traits == {VfsOpsTrait, DefaultTrait}

Crates == {"axfs_devfs", "axfs_ramfs"}

StructNames == {"DeviceFileSystem", "RamFileSystem", "UrandomDev"}

Anchor(kind, href, path, name) ==
  "<a class=\"" \o kind \o "\" href=\"" \o href
     \o "\" title=\"" \o kind \o " " \o path \o "\">" \o name \o "</a>"

ImplHtml(trait, crate, struct) ==
  "impl " \o Anchor("trait", trait.href, trait.path, trait.name)
    \o " for "
    \o Anchor("struct", crate \o "/struct." \o struct \o ".html",
              crate \o "::" \o struct, struct)

\* Every snippet of the shape, over the traits, crates and structs above.
ImplHtmls ==
  { ImplHtml(t, c, n) : t \in Traits, c \in Crates, n \in StructNames }

(***************************************************************************)
(* The array literal handed to Object.fromEntries on line 2: a list of     *)
(* [crate, [[html, flag], ...]] pairs.                                     *)
(***************************************************************************)
\* A generator bug that lists UrandomDev as a VfsOps implementor.
entries_VfsOps_WithUrandom ==
  << << "axfs_devfs", << << html_VfsOps_DeviceFileSystem, 0 >>,
                         << ImplHtml(VfsOpsTrait, "axfs_devfs", "UrandomDev"), 0 >> >> >>,
     << "axfs_ramfs", << << html_VfsOps_RamFileSystem, 0 >> >> >> >>

\* A generator bug that emits both lists under the same crate key.
entries_VfsOps_DupKey ==
  << << "axfs_devfs", << << html_VfsOps_DeviceFileSystem, 0 >> >> >>,
     << "axfs_devfs", << << html_VfsOps_RamFileSystem, 0 >> >> >> >>

entries_VfsOps ==
  << << "axfs_devfs", << << html_VfsOps_DeviceFileSystem, 0 >> >> >>,
     << "axfs_ramfs", << << html_VfsOps_RamFileSystem, 0 >> >> >> >>

\* A generator bug that loses the Default impl of RamFileSystem.
entries_Default_NoRamFs ==
  << << "axfs_devfs", << << html_Default_DeviceFileSystem, 0 >>,
                         << html_Default_UrandomDev, 0 >> >> >> >>

entries_Default ==
  << << "axfs_devfs", << << html_Default_DeviceFileSystem, 0 >>,
                         << html_Default_UrandomDev, 0 >> >> >>,
     << "axfs_ramfs", << << html_Default_RamFileSystem, 0 >> >> >> >>

Entries == [s \in Scripts |-> IF s = "VfsOps" THEN entries_VfsOps
                                              ELSE entries_Default]

(***************************************************************************)
(* The text of a script as the generator wrote it: lines 1-8 are a fixed   *)
(* prefix, one fragment per crate and a fixed suffix; line 9 is a comment  *)
(* that records the start offset and the fragment lengths.                 *)
(***************************************************************************)
Prefix == "(function() {\n    const implementors = Object.fromEntries(["

Suffix ==
  "]);\n    if (window.register_implementors) {\n        window.register_implementors(implementors);\n    } else {\n        window.pending_implementors = implementors;\n    }\n})()\n"

\* The body of a JavaScript string literal: quotes and backslashes escaped.
RECURSIVE Escape(_)
Escape(s) ==
  IF Len(s) = 0 THEN ""
  ELSE IF Len(s) = 1
       THEN (IF s = "\"" \/ s = "\\" THEN "\\" \o s ELSE s)
       ELSE LET h == Len(s) \div 2
            IN  Escape(SubSeq(s, 1, h)) \o Escape(SubSeq(s, h + 1, Len(s)))

\* A bug that writes the literal without escaping its quotes.
JsonStringUnescaped(s) == "\"" \o s \o "\""

\* A string as it stands in the source text of line 2.
JsonString(s) == "\"" \o Escape(s) \o "\""

\* One [html, flag] entry as source text.
EntryText(e) == "[" \o JsonString(e[1]) \o "," \o ToString(e[2]) \o "]"

RECURSIVE ListText(_)
ListText(l) ==
  IF l = << >> THEN ""
  ELSE IF Len(l) = 1 THEN EntryText(l[1])
  ELSE EntryText(l[1]) \o "," \o ListText(Tail(l))

\* The k-th crate fragment of the array literal arr, with the comma that
\* separates it from the fragment before it.
FragmentText(arr, k) ==
  (IF k > 1 THEN "," ELSE "")
    \o "[" \o JsonString(arr[k][1]) \o ",[" \o ListText(arr[k][2]) \o "]]"

RECURSIVE FragmentsText(_, _)
FragmentsText(arr, n) ==
  IF n = 0 THEN "" ELSE FragmentsText(arr, n - 1) \o FragmentText(arr, n)

\* Lines 1-8 of each script.
FileText == [s \in Scripts |->
               Prefix \o FragmentsText(Entries[s], Len(Entries[s])) \o Suffix]

\* Line 9 of each script.
Meta == [s \in Scripts |->
           IF s = "VfsOps"
           THEN [start |-> 59, fragment_lengths |-> << 266, 258 >>]
           ELSE [start |-> 59, fragment_lengths |-> << 590, 304 >>]]

(***************************************************************************)
(* Object.fromEntries: the keys in order of first insertion, and for each  *)
(* key the value of the last pair that carries it.                         *)
(***************************************************************************)
RECURSIVE InsertionOrder(_)
InsertionOrder(arr) ==
  IF arr = << >> THEN << >>
  ELSE LET init == InsertionOrder(SubSeq(arr, 1, Len(arr) - 1))
           k    == arr[Len(arr)][1]
       IN  IF \E i \in DOMAIN init : init[i] = k THEN init
                                                 ELSE Append(init, k)

ObjectFromEntries(arr) ==
  [ type |-> "object",
    keys |-> InsertionOrder(arr),
    get  |-> [ k \in { arr[i][1] : i \in DOMAIN arr } |->
                 arr[CHOOSE i \in DOMAIN arr :
                        /\ arr[i][1] = k
                        /\ \A j \in DOMAIN arr : j > i => arr[j][1] # k][2] ] ]

\* const implementors = Object.fromEntries([...]), per script.
Implementors == [s \in Scripts |-> ObjectFromEntries(Entries[s])]

\* The test of `if (window.register_implementors)`: the property is either
\* undefined or a function installed by the page.
Truthy(v) == v # Undefined

(***************************************************************************)
(* One run of the IIFE of script s on the window w: the window afterwards, *)
(* the calls made (function, argument), the properties assigned and the    *)
(* window functions invoked.                                               *)
(***************************************************************************)
\* A bug that both calls the registrar and parks the map.
IIFE_CallAndPark(s, w) ==
  LET implementors == Implementors[s]
  IN  IF Truthy(w["register_implementors"])
      THEN [ window |-> [w EXCEPT !["pending_implementors"] = implementors],
             calls  |-> << [fn  |-> w["register_implementors"],
                            arg |-> implementors] >>,
             wrote  |-> {"pending_implementors"},
             called |-> << "register_implementors" >> ]
      ELSE [ window |-> [w EXCEPT !["pending_implementors"] = implementors],
             calls  |-> << >>,
             wrote  |-> {"pending_implementors"},
             called |-> << >> ]

\* A variant that tests the parked map first and assigns only on a change.
IIFE_SkipSameMap(s, w) ==
  LET implementors == Implementors[s]
  IN  IF Truthy(w["register_implementors"])
      THEN [ window |-> w,
             calls  |-> << [fn  |-> w["register_implementors"],
                            arg |-> implementors] >>,
             wrote  |-> {},
             called |-> << "register_implementors" >> ]
      ELSE IF w["pending_implementors"] = implementors
           THEN [ window |-> w, calls |-> << >>, wrote |-> {},
                  called |-> << >> ]
           ELSE [ window |-> [w EXCEPT !["pending_implementors"] = implementors],
                  calls  |-> << >>,
                  wrote  |-> {"pending_implementors"},
                  called |-> << >> ]

\* A variant that parks a map only when none is parked yet.
IIFE_KeepFirst(s, w) ==
  LET implementors == Implementors[s]
  IN  IF Truthy(w["register_implementors"])
      THEN [ window |-> w,
             calls  |-> << [fn  |-> w["register_implementors"],
                            arg |-> implementors] >>,
             wrote  |-> {},
             called |-> << "register_implementors" >> ]
      ELSE IF Truthy(w["pending_implementors"])
           THEN [ window |-> w, calls |-> << >>, wrote |-> {},
                  called |-> << >> ]
           ELSE [ window |-> [w EXCEPT !["pending_implementors"] = implementors],
                  calls  |-> << >>,
                  wrote  |-> {"pending_implementors"},
                  called |-> << >> ]

\* A bug that declares implementors without const, making it a global.
IIFE_ExposeGlobal(s, w) ==
  LET implementors == Implementors[s]
      g == [w EXCEPT !["implementors"] = implementors]
  IN  IF Truthy(w["register_implementors"])
      THEN [ window |-> g,
             calls  |-> << [fn  |-> w["register_implementors"],
                            arg |-> implementors] >>,
             wrote  |-> {"implementors"},
             called |-> << "register_implementors" >> ]
      ELSE [ window |-> [g EXCEPT !["pending_implementors"] = implementors],
             calls  |-> << >>,
             wrote  |-> {"implementors", "pending_implementors"},
             called |-> << >> ]

IIFE(s, w) ==
  LET implementors == Implementors[s]
  IN  IF Truthy(w["register_implementors"])
      THEN [ window |-> w,
             calls  |-> << [fn  |-> w["register_implementors"],
                            arg |-> implementors] >>,
             wrote  |-> {},
             called |-> << "register_implementors" >> ]
      ELSE [ window |-> [w EXCEPT !["pending_implementors"] = implementors],
             calls  |-> << >>,
             wrote  |-> {"pending_implementors"},
             called |-> << >> ]

Init ==
  /\ window \in { [p \in Props |-> IF p = "register_implementors" THEN r
                                                                  ELSE Undefined] :
                  r \in {Undefined} \cup Registrars }
  /\ calls = << >>
  /\ ran = << >>

\* The page loads script s: the whole IIFE runs synchronously.
RunScript(s) ==
  /\ Len(ran) < MaxRuns
  /\ LET e == IIFE(s, window)
     IN  /\ window' = e.window
         /\ calls' = calls \o e.calls
         /\ ran' = Append(ran, [ script       |-> s,
                                 before       |-> window,
                                 implementors |-> Implementors[s],
                                 wrote        |-> e.wrote,
                                 called       |-> e.called ])

\* The page installs a registrar function as window.register_implementors.
HostDefineRegistrar(r) ==
  /\ window["register_implementors"] # r
  /\ window' = [window EXCEPT !["register_implementors"] = r]
  /\ UNCHANGED << calls, ran >>

Next ==
  \/ \E s \in Scripts : RunScript(s)
  \/ \E r \in Registrars : HostDefineRegistrar(r)

Spec == Init /\ [][Next]_vars

(***************************************************************************)
(* Reading a map: the struct a snippet names as implementing a trait under *)
(* a crate key ("?" when it names none), and the structs of a whole list.  *)
(***************************************************************************)
NamedBy(html, trait, crate) ==
  IF \E n \in StructNames : html = ImplHtml(trait, crate, n)
  THEN CHOOSE n \in StructNames : html = ImplHtml(trait, crate, n)
  ELSE "?"

StructList(m, trait, k) ==
  [ j \in DOMAIN m.get[k] |-> NamedBy(m.get[k][j][1], trait, k) ]

RunsOf(s) == { i \in DOMAIN ran : ran[i].script = s }

RegistrarAt(i) == ran[i].before["register_implementors"]

\* C1: the map built by trait.VfsOps.js has exactly the keys axfs_devfs and
\* axfs_ramfs, in that order, each with exactly one entry: DeviceFileSystem
\* under axfs_devfs and RamFileSystem under axfs_ramfs implement VfsOps, and
\* nothing else (in particular not UrandomDev) is listed.
C1_VfsOpsImplementors ==
  \A i \in RunsOf("VfsOps") :
    LET m == ran[i].implementors
    IN  /\ m.keys = << "axfs_devfs", "axfs_ramfs" >>
        /\ DOMAIN m.get = {"axfs_devfs", "axfs_ramfs"}
        /\ StructList(m, VfsOpsTrait, "axfs_devfs") = << "DeviceFileSystem" >>
        /\ StructList(m, VfsOpsTrait, "axfs_ramfs") = << "RamFileSystem" >>

C1_Witness ==
  /\ RunsOf("VfsOps") # {}
  /\ window["pending_implementors"] = Implementors["VfsOps"]

\* C2: every struct the VfsOps map lists is listed under the same crate key
\* as an implementor of Default in the map of part_000, whose entries are
\* exactly axfs_devfs -> [DeviceFileSystem, UrandomDev] and
\* axfs_ramfs -> [RamFileSystem].
C2_FilesystemsAreDefault ==
  \A i \in RunsOf("VfsOps"), j \in RunsOf("Default") :
    LET v == ran[i].implementors
        d == ran[j].implementors
    IN  /\ \A k \in DOMAIN v.get : \A a \in DOMAIN v.get[k] :
             LET n == NamedBy(v.get[k][a][1], VfsOpsTrait, k)
             IN  /\ n # "?"
                 /\ k \in DOMAIN d.get
                 /\ \E b \in DOMAIN d.get[k] :
                      d.get[k][b][1] = ImplHtml(DefaultTrait, k, n)
        /\ d.keys = << "axfs_devfs", "axfs_ramfs" >>
        /\ DOMAIN d.get = {"axfs_devfs", "axfs_ramfs"}
        /\ StructList(d, DefaultTrait, "axfs_devfs")
             = << "DeviceFileSystem", "UrandomDev" >>
        /\ StructList(d, DefaultTrait, "axfs_ramfs") = << "RamFileSystem" >>

C2_Witness ==
  /\ RunsOf("VfsOps") # {}
  /\ RunsOf("Default") # {}

\* C3: in both scripts the array has no duplicate crate key, so that
\* Object.fromEntries keeps every list; every list is non-empty; and every
\* entry is a pair of a snippet "impl <Trait> for <Struct>" and the flag 0.
C3_MapShape ==
  \A i \in DOMAIN ran :
    LET arr == Entries[ran[i].script]
        m   == ran[i].implementors
    IN  /\ Len(m.keys) = Len(arr)
        /\ \A k \in DOMAIN arr :
             /\ arr[k][1] \in Crates
             /\ m.keys[k] = arr[k][1]
             /\ m.get[arr[k][1]] = arr[k][2]
        /\ \A k \in DOMAIN m.get :
             /\ Len(m.get[k]) >= 1
             /\ \A j \in DOMAIN m.get[k] :
                  /\ Len(m.get[k][j]) = 2
                  /\ m.get[k][j][1] \in ImplHtmls
                  /\ m.get[k][j][2] = 0

C3_Witness ==
  /\ \E a \in DOMAIN calls : calls[a].arg = Implementors["VfsOps"]
  /\ \E b \in DOMAIN calls : calls[b].arg = Implementors["Default"]

\* C4: a run registers the script's map in exactly one way. With a registrar
\* defined, the registrar is called once with the full map and
\* pending_implementors keeps its value; otherwise pending_implementors
\* becomes the full map and no call is made. No other step makes a call, so
\* a parked map is not handed over when a registrar is defined later.
C4_ExactlyOneRegistration ==
  [][ IF Len(ran') = Len(ran) + 1
      THEN LET s   == ran'[Len(ran')].script
               reg == window["register_implementors"]
           IN  IF reg # Undefined
               THEN /\ calls' = Append(calls, [fn |-> reg, arg |-> Implementors[s]])
                    /\ window'["pending_implementors"]
                         = window["pending_implementors"]
               ELSE /\ window'["pending_implementors"] = Implementors[s]
                    /\ calls' = calls
      ELSE calls' = calls ]_vars

C4_Witness ==
  /\ Len(ran) = 2
  /\ RegistrarAt(1) = Undefined
  /\ RegistrarAt(2) # Undefined
  /\ Len(calls) = 1
  /\ window["pending_implementors"] = Implementors[ran[1].script]

\* C5 as stated: the properties written and the functions called by a run of
\* a script are the same for every starting state of window.
C5_EffectIndependentOfWindow ==
  \A i, j \in DOMAIN ran :
    ran[i].script = ran[j].script =>
      /\ ran[i].wrote = ran[j].wrote
      /\ ran[i].called = ran[j].called

\* C5 amended: the scripts have one branch. The properties written and the
\* functions called by a run depend on the starting state of window only
\* through whether register_implementors is defined.
C5_EffectDependsOnlyOnRegistrar ==
  \A i, j \in DOMAIN ran :
    /\ ran[i].script = ran[j].script
    /\ Truthy(RegistrarAt(i)) = Truthy(RegistrarAt(j))
    => /\ ran[i].wrote = ran[j].wrote
       /\ ran[i].called = ran[j].called

C5_Witness ==
  \E i, j \in DOMAIN ran :
    /\ ran[i].script = ran[j].script
    /\ Truthy(RegistrarAt(i)) = Truthy(RegistrarAt(j))
    /\ ran[i].before # ran[j].before

\* C6: when both scripts have run, in either order, with no registrar
\* defined at any run, pending_implementors is the map of the script that
\* ran last, no call was made, and the other script's map is the value of
\* no window property.
C6_LastRunWins ==
  ( /\ RunsOf("VfsOps") # {}
    /\ RunsOf("Default") # {}
    /\ \A i \in DOMAIN ran : RegistrarAt(i) = Undefined )
  => LET last == ran[Len(ran)].script
     IN  /\ window["pending_implementors"] = Implementors[last]
         /\ calls = << >>
         /\ \A s \in Scripts \ {last} : \A p \in Props :
              window[p] # Implementors[s]

C6_Witness ==
  /\ Len(ran) = 3
  /\ ran[1].script = "VfsOps"
  /\ ran[2].script = "Default"
  /\ ran[3].script = "VfsOps"
  /\ \A i \in DOMAIN ran : RegistrarAt(i) = Undefined

\* C7: a run changes no window property other than pending_implementors:
\* register_implementors keeps its value, implementors does not become a
\* global, and with a registrar defined the window is left as it was.
C7_Frame ==
  [][ Len(ran') = Len(ran) + 1 =>
        /\ \A p \in Props \ {"pending_implementors"} : window'[p] = window[p]
        /\ ran'[Len(ran')].wrote \subseteq {"pending_implementors"}
        /\ Truthy(window["register_implementors"]) =>
             /\ window' = window
             /\ ran'[Len(ran')].wrote = {} ]_vars

C7_Witness ==
  /\ \E i \in DOMAIN ran : ran[i].wrote = {}
  /\ \E j \in DOMAIN ran : ran[j].wrote = {"pending_implementors"}
  /\ window["implementors"] = Undefined

\* The slice of script s's text that line 9 assigns to the k-th fragment
\* starts at this offset (counted from 0).
RECURSIVE FragmentOffset(_, _)
FragmentOffset(s, k) ==
  IF k = 1 THEN Meta[s].start
  ELSE FragmentOffset(s, k - 1) + Meta[s].fragment_lengths[k - 1]

MetaDescribesFragments ==
  [ s \in Scripts |->
      LET arr  == Entries[s]
          lens == Meta[s].fragment_lengths
          text == FileText[s]
      IN  /\ Len(lens) = Len(Implementors[s].keys)
          /\ Len(lens) = Len(arr)
          /\ Meta[s].start = 59
          /\ \A k \in DOMAIN lens :
               SubSeq(text, FragmentOffset(s, k) + 1,
                            FragmentOffset(s, k) + lens[k])
                 = FragmentText(arr, k)
          /\ \A k \in DOMAIN lens :
               k > 1 => SubSeq(text, FragmentOffset(s, k) + 1,
                                     FragmentOffset(s, k) + 1) = ","
          /\ SubSeq(text, FragmentOffset(s, Len(lens) + 1) + 1, Len(text))
               = Suffix ]

\* C8: line 9 of each script describes the crate fragments of the array
\* literal: one length per crate key, start (59) the offset of the first
\* fragment, each length that of a fragment with the comma before it, and
\* start plus the lengths the offset just past the last fragment.
C8_FragmentLengths ==
  \A i \in DOMAIN ran : MetaDescribesFragments[ran[i].script]

C8_Witness ==
  /\ Len(ran) = 2
  /\ ran[1].script = "Default"
  /\ ran[2].script = "VfsOps"

====
